---- MODULE Spec2Model ----
(***************************************************************************)
(* Model of the fixed-price listing contract                               *)
(* (contracts/hello-world/src/lib.rs, FixedPriceAuctionContract).          *)
(*                                                                         *)
(* The contract's instance storage holds DataKey::Item(id) -> Item and     *)
(* DataKey::ItemCounter -> u64.  Every entry point is one host invocation: *)
(* it runs to completion on its own, and an invocation that panics is      *)
(* aborted by the host, which discards every storage write the invocation  *)
(* made.  The ledger timestamp is a u64 that never decreases.              *)
(*                                                                         *)
(* Results name the panics by kind:                                        *)
(*   Unauthorized  require_auth() fails                                    *)
(*   InvalidPrice  "Price must be greater than zero"                       *)
(*   NotFound      "Item does not exist"                                   *)
(*   NotAvailable  "Item is no longer available" / "Item is not in listed  *)
(*                 state"                                                  *)
(*   Expired       "Listing has expired"                                   *)
(*   SelfTrade     "Seller cannot buy their own item"                      *)
(*   NotOwner      "Only the seller can unlist this item"                  *)
(*   Overflow      current_time + duration_seconds overflows u64 in a      *)
(*                 build that checks overflow                              *)
(***************************************************************************)
EXTENDS Integers, Sequences, FiniteSets, TLC

\* ---- bounds of the model ------------------------------------------------
MaxItems == 2          \* list_item is explored while the counter is below this
MaxInFlight == 2       \* invocations that may overlap when execution is not serialized
U64Limit == 3          \* u64 values are 0 .. U64Limit-1 (stands for 2^64)

\* ---- input domains ------------------------------------------------------
Address == {"GA", "GB"}
Price == {-1, 0, 1, 2}
Description == {"d1"}
U64 == 0 .. (U64Limit - 1)
ItemId == 0 .. MaxItems

\* Option<Address>
None == <<>>
Some(a) == <<a>>

VARIABLES
    items,            \* instance storage, DataKey::Item(id) -> Item
    counter,          \* instance storage, DataKey::ItemCounter: <<>> absent, <<n>> set
    now,              \* env.ledger().timestamp()
    overflow_checks,  \* whether the build traps on integer overflow or wraps
    lastCall,         \* the last invocation: operation and result
    returned,         \* ids returned by the successful list_item calls, in order
    transitions,      \* id -> number of buy_item / unlist_item calls that returned true
    atomic,           \* whether the host serializes the invocations
    inflight          \* invocations that have read storage and not yet written

vars == <<items, counter, now, overflow_checks, lastCall, returned,
          transitions, atomic, inflight>>

Proc == 1 .. MaxInFlight
Idle == <<>>

NoItem == <<>>

\* An invocation's outcome: its result (Ok or the kind of the panic), its
\* return value, and the storage as the invocation left it when it ended.
Outcome(result, ret_u64, ret_bool, ret_item, its, ctr) ==
    [result |-> result, ret_u64 |-> ret_u64, ret_bool |-> ret_bool,
     ret_item |-> ret_item, items |-> its, counter |-> ctr]

\* panic!(..) with the storage writes made so far
Panic(kind, its, ctr) == Outcome(kind, 0, FALSE, NoItem, its, ctr)

\* The host aborts a panicking invocation and discards its writes.
Host(out) ==
    IF out.result = "Ok" THEN out
    ELSE [out EXCEPT !.items = items, !.counter = counter]

\* env.storage().instance().get(&DataKey::ItemCounter).unwrap_or(0)
ItemCounter == IF counter = <<>> THEN 0 ELSE counter[1]

\* Item { id, seller, price, description, status: Listed, buyer: None, .. }
NewItem(item_id, seller, price, description, list_time, expiry_time) ==
    [id |-> item_id, seller |-> seller, price |-> price,
     description |-> description, status |-> "Listed", buyer |-> None,
     list_time |-> list_time, expiry_time |-> expiry_time]

SetItem_clobber(its, item_id, item) == (item_id :> item)

\* env.storage().instance().set(&DataKey::Item(item_id), &item)
SetItem(its, item_id, item) == (item_id :> item) @@ its

\* ---- list_item ----------------------------------------------------------
list_item_stale_counter(seller, price, description, duration_seconds, auth) ==
    IF ~auth THEN Panic("Unauthorized", items, counter)
    ELSE IF price <= 0 THEN Panic("InvalidPrice", items, counter)
    ELSE LET item_id == ItemCounter + 1
             sum == now + duration_seconds
         IN  IF sum >= U64Limit /\ overflow_checks
             THEN Panic("Overflow", items, counter)
             ELSE Outcome("Ok", item_id, FALSE, NoItem,
                          SetItem(items, item_id,
                                  NewItem(item_id, seller, price, description,
                                          now, sum % U64Limit)),
                          counter)

list_item_price_nonneg(seller, price, description, duration_seconds, auth) ==
    IF ~auth THEN Panic("Unauthorized", items, counter)
    ELSE IF price < 0 THEN Panic("InvalidPrice", items, counter)
    ELSE LET item_id == ItemCounter + 1
             sum == now + duration_seconds
         IN  IF sum >= U64Limit /\ overflow_checks
             THEN Panic("Overflow", items, counter)
             ELSE Outcome("Ok", item_id, FALSE, NoItem,
                          SetItem(items, item_id,
                                  NewItem(item_id, seller, price, description,
                                          now, sum % U64Limit)),
                          <<item_id>>)

list_item_old_id(seller, price, description, duration_seconds, auth) ==
    IF ~auth THEN Panic("Unauthorized", items, counter)
    ELSE IF price <= 0 THEN Panic("InvalidPrice", items, counter)
    ELSE LET item_id == ItemCounter + 1
             sum == now + duration_seconds
         IN  IF sum >= U64Limit /\ overflow_checks
             THEN Panic("Overflow", items, counter)
             ELSE Outcome("Ok", item_id, FALSE, NoItem,
                          SetItem(items, item_id,
                                  NewItem(ItemCounter, seller, price, description,
                                          now, sum % U64Limit)),
                          <<item_id>>)

list_item(seller, price, description, duration_seconds, auth) ==
    IF ~auth THEN Panic("Unauthorized", items, counter)        \* seller.require_auth()
    ELSE IF price <= 0 THEN Panic("InvalidPrice", items, counter)
    ELSE LET item_counter == ItemCounter
             item_id == item_counter + 1
             current_time == now
             \* current_time + duration_seconds on u64: traps when the build
             \* checks overflow, wraps otherwise
             sum == current_time + duration_seconds
         IN  IF sum >= U64Limit /\ overflow_checks
             THEN Panic("Overflow", items, counter)
             ELSE LET expiry_time == sum % U64Limit
                      item == NewItem(item_id, seller, price, description,
                                      current_time, expiry_time)
                  IN  Outcome("Ok", item_id, FALSE, NoItem,
                              SetItem(items, item_id, item), <<item_id>>)

\* ---- buy_item -----------------------------------------------------------
buy_item_takes_ownership(item_id, buyer, auth) ==
    IF ~auth THEN Panic("Unauthorized", items, counter)
    ELSE IF item_id \notin DOMAIN items THEN Panic("NotFound", items, counter)
    ELSE LET item == items[item_id]
         IN  IF item.status # "Listed" THEN Panic("NotAvailable", items, counter)
             ELSE IF now > item.expiry_time
             THEN Panic("Expired",
                        SetItem(items, item_id, [item EXCEPT !.status = "Unlisted"]),
                        counter)
             ELSE IF buyer = item.seller THEN Panic("SelfTrade", items, counter)
             ELSE Outcome("Ok", 0, TRUE, NoItem,
                          SetItem(items, item_id,
                                  [item EXCEPT !.status = "Sold", !.buyer = Some(buyer),
                                               !.seller = buyer]),
                          counter)

buy_item_expiry_exclusive(item_id, buyer, auth) ==
    IF ~auth THEN Panic("Unauthorized", items, counter)
    ELSE IF item_id \notin DOMAIN items THEN Panic("NotFound", items, counter)
    ELSE LET item == items[item_id]
         IN  IF item.status # "Listed" THEN Panic("NotAvailable", items, counter)
             ELSE IF now >= item.expiry_time
             THEN Panic("Expired",
                        SetItem(items, item_id, [item EXCEPT !.status = "Unlisted"]),
                        counter)
             ELSE IF buyer = item.seller THEN Panic("SelfTrade", items, counter)
             ELSE Outcome("Ok", 0, TRUE, NoItem,
                          SetItem(items, item_id,
                                  [item EXCEPT !.status = "Sold", !.buyer = Some(buyer)]),
                          counter)

buy_item_no_expiry(item_id, buyer, auth) ==
    IF ~auth THEN Panic("Unauthorized", items, counter)
    ELSE IF item_id \notin DOMAIN items THEN Panic("NotFound", items, counter)
    ELSE LET item == items[item_id]
         IN  IF item.status # "Listed" THEN Panic("NotAvailable", items, counter)
             ELSE IF buyer = item.seller THEN Panic("SelfTrade", items, counter)
             ELSE Outcome("Ok", 0, TRUE, NoItem,
                          SetItem(items, item_id,
                                  [item EXCEPT !.status = "Sold", !.buyer = Some(buyer)]),
                          counter)

buy_item_no_selftrade_check(item_id, buyer, auth) ==
    IF ~auth THEN Panic("Unauthorized", items, counter)
    ELSE IF item_id \notin DOMAIN items THEN Panic("NotFound", items, counter)
    ELSE LET item == items[item_id]
         IN  IF item.status # "Listed" THEN Panic("NotAvailable", items, counter)
             ELSE IF now > item.expiry_time
             THEN Panic("Expired",
                        SetItem(items, item_id, [item EXCEPT !.status = "Unlisted"]),
                        counter)
             ELSE Outcome("Ok", 0, TRUE, NoItem,
                          SetItem(items, item_id,
                                  [item EXCEPT !.status = "Sold", !.buyer = Some(buyer)]),
                          counter)

buy_item_selftrade_first(item_id, buyer, auth) ==
    IF ~auth THEN Panic("Unauthorized", items, counter)
    ELSE IF item_id \notin DOMAIN items THEN Panic("NotFound", items, counter)
    ELSE LET item == items[item_id]
         IN  IF item.status # "Listed" THEN Panic("NotAvailable", items, counter)
             ELSE IF buyer = item.seller THEN Panic("SelfTrade", items, counter)
             ELSE IF now > item.expiry_time
             THEN Panic("Expired",
                        SetItem(items, item_id, [item EXCEPT !.status = "Unlisted"]),
                        counter)
             ELSE Outcome("Ok", 0, TRUE, NoItem,
                          SetItem(items, item_id,
                                  [item EXCEPT !.status = "Sold", !.buyer = Some(buyer)]),
                          counter)

buy_item_expiry_before_status(item_id, buyer, auth) ==
    IF ~auth THEN Panic("Unauthorized", items, counter)
    ELSE IF item_id \notin DOMAIN items THEN Panic("NotFound", items, counter)
    ELSE LET item == items[item_id]
         IN  IF now > item.expiry_time
             THEN Panic("Expired",
                        SetItem(items, item_id, [item EXCEPT !.status = "Unlisted"]),
                        counter)
             ELSE IF item.status # "Listed" THEN Panic("NotAvailable", items, counter)
             ELSE IF buyer = item.seller THEN Panic("SelfTrade", items, counter)
             ELSE Outcome("Ok", 0, TRUE, NoItem,
                          SetItem(items, item_id,
                                  [item EXCEPT !.status = "Sold", !.buyer = Some(buyer)]),
                          counter)

buy_item(item_id, buyer, auth) ==
    IF ~auth THEN Panic("Unauthorized", items, counter)        \* buyer.require_auth()
    ELSE IF item_id \notin DOMAIN items THEN Panic("NotFound", items, counter)
    ELSE LET item == items[item_id]
             current_time == now
         IN  IF item.status # "Listed" THEN Panic("NotAvailable", items, counter)
             ELSE IF current_time > item.expiry_time
             THEN \* item.status = Unlisted; set(Item(item_id)); panic!
                  Panic("Expired",
                        SetItem(items, item_id, [item EXCEPT !.status = "Unlisted"]),
                        counter)
             ELSE IF buyer = item.seller THEN Panic("SelfTrade", items, counter)
             ELSE Outcome("Ok", 0, TRUE, NoItem,
                          SetItem(items, item_id,
                                  [item EXCEPT !.status = "Sold", !.buyer = Some(buyer)]),
                          counter)

\* ---- unlist_item --------------------------------------------------------
unlist_item_removes(item_id, seller, auth) ==
    IF ~auth THEN Panic("Unauthorized", items, counter)
    ELSE IF item_id \notin DOMAIN items THEN Panic("NotFound", items, counter)
    ELSE LET item == items[item_id]
         IN  IF item.seller # seller THEN Panic("NotOwner", items, counter)
             ELSE IF item.status # "Listed" THEN Panic("NotAvailable", items, counter)
             ELSE Outcome("Ok", 0, TRUE, NoItem,
                          [k \in DOMAIN items \ {item_id} |-> items[k]], counter)

unlist_item_checks_expiry(item_id, seller, auth) ==
    IF ~auth THEN Panic("Unauthorized", items, counter)
    ELSE IF item_id \notin DOMAIN items THEN Panic("NotFound", items, counter)
    ELSE LET item == items[item_id]
         IN  IF item.seller # seller THEN Panic("NotOwner", items, counter)
             ELSE IF item.status # "Listed" THEN Panic("NotAvailable", items, counter)
             ELSE IF now > item.expiry_time THEN Panic("Expired", items, counter)
             ELSE Outcome("Ok", 0, TRUE, NoItem,
                          SetItem(items, item_id, [item EXCEPT !.status = "Unlisted"]),
                          counter)

unlist_item_no_status_check(item_id, seller, auth) ==
    IF ~auth THEN Panic("Unauthorized", items, counter)
    ELSE IF item_id \notin DOMAIN items THEN Panic("NotFound", items, counter)
    ELSE LET item == items[item_id]
         IN  IF item.seller # seller THEN Panic("NotOwner", items, counter)
             ELSE Outcome("Ok", 0, TRUE, NoItem,
                          SetItem(items, item_id, [item EXCEPT !.status = "Unlisted"]),
                          counter)

unlist_item_status_first(item_id, seller, auth) ==
    IF ~auth THEN Panic("Unauthorized", items, counter)
    ELSE IF item_id \notin DOMAIN items THEN Panic("NotFound", items, counter)
    ELSE LET item == items[item_id]
         IN  IF item.status # "Listed" THEN Panic("NotAvailable", items, counter)
             ELSE IF item.seller # seller THEN Panic("NotOwner", items, counter)
             ELSE Outcome("Ok", 0, TRUE, NoItem,
                          SetItem(items, item_id, [item EXCEPT !.status = "Unlisted"]),
                          counter)

unlist_item(item_id, seller, auth) ==
    IF ~auth THEN Panic("Unauthorized", items, counter)        \* seller.require_auth()
    ELSE IF item_id \notin DOMAIN items THEN Panic("NotFound", items, counter)
    ELSE LET item == items[item_id]
         IN  IF item.seller # seller THEN Panic("NotOwner", items, counter)
             ELSE IF item.status # "Listed" THEN Panic("NotAvailable", items, counter)
             ELSE Outcome("Ok", 0, TRUE, NoItem,
                          SetItem(items, item_id, [item EXCEPT !.status = "Unlisted"]),
                          counter)

\* ---- view_item ----------------------------------------------------------
view_item(item_id) ==
    IF item_id \notin DOMAIN items THEN Panic("NotFound", items, counter)
    ELSE Outcome("Ok", 0, FALSE, <<items[item_id]>>, items, counter)

\* ---- the invocations ----------------------------------------------------
Call(op, out) == [op |-> op, result |-> out.result]

NoCall == [op |-> "none", result |-> "none"]

\* successful buy_item / unlist_item calls on an id so far
Transitions(id) == IF id \in DOMAIN transitions THEN transitions[id] ELSE 0

\* one more buy_item / unlist_item has returned true on an id
Returned(item_id, out) ==
    IF out.result = "Ok"
    THEN (item_id :> Transitions(item_id) + 1) @@ transitions
    ELSE transitions

InitStorage ==
    /\ items = <<>>
    /\ counter = <<>>
    /\ now \in U64
    /\ overflow_checks \in BOOLEAN
    /\ lastCall = NoCall
    /\ returned = <<>>
    /\ transitions = <<>>
    /\ inflight = [p \in Proc |-> Idle]

\* the host runs one invocation at a time
Init == InitStorage /\ atomic = TRUE

ListItemCall(seller, price, description, duration_seconds, auth) ==
    /\ ItemCounter < MaxItems
    /\ LET out == Host(list_item(seller, price, description, duration_seconds, auth))
       IN  /\ items' = out.items
           /\ counter' = out.counter
           /\ returned' = IF out.result = "Ok"
                          THEN Append(returned, out.ret_u64) ELSE returned
           /\ lastCall' = Call("list_item", out)
    /\ UNCHANGED <<now, overflow_checks, transitions, atomic, inflight>>

BuyItemCall(item_id, buyer, auth) ==
    /\ LET out == Host(buy_item(item_id, buyer, auth))
       IN  /\ items' = out.items
           /\ counter' = out.counter
           /\ lastCall' = Call("buy_item", out)
           /\ transitions' = Returned(item_id, out)
    /\ UNCHANGED <<now, overflow_checks, returned, atomic, inflight>>

UnlistItemCall(item_id, seller, auth) ==
    /\ LET out == Host(unlist_item(item_id, seller, auth))
       IN  /\ items' = out.items
           /\ counter' = out.counter
           /\ lastCall' = Call("unlist_item", out)
           /\ transitions' = Returned(item_id, out)
    /\ UNCHANGED <<now, overflow_checks, returned, atomic, inflight>>

ViewItemCall(item_id) ==
    /\ LET out == Host(view_item(item_id))
       IN  /\ items' = out.items
           /\ counter' = out.counter
           /\ lastCall' = Call("view_item", out)
    /\ UNCHANGED <<now, overflow_checks, returned, transitions, atomic, inflight>>

ListItem ==
    \E seller \in Address, price \in Price, description \in Description,
       duration_seconds \in U64, auth \in BOOLEAN :
        ListItemCall(seller, price, description, duration_seconds, auth)

BuyItem ==
    \E item_id \in ItemId, buyer \in Address, auth \in BOOLEAN :
        BuyItemCall(item_id, buyer, auth)

UnlistItem ==
    \E item_id \in ItemId, seller \in Address, auth \in BOOLEAN :
        UnlistItemCall(item_id, seller, auth)

ViewItem == \E item_id \in ItemId : ViewItemCall(item_id)

\* the ledger closes and the timestamp advances
Tick ==
    /\ now < U64Limit - 1
    /\ now' = now + 1
    /\ UNCHANGED <<items, counter, overflow_checks, lastCall, returned,
                   transitions, atomic, inflight>>

Next == ListItem \/ BuyItem \/ UnlistItem \/ ViewItem \/ Tick

Spec == Init /\ [][Next]_vars

\* ---- invocations that overlap -------------------------------------------
\* Without the host's serialization an invocation reads storage, computes,
\* and writes later, and another invocation may run in between.

\* the entries an invocation that ended with `out` sets, given what it read
ItemsWritten(out) ==
    [k \in {j \in DOMAIN out.items :
                j \notin DOMAIN items \/ out.items[j] # items[j]} |-> out.items[k]]

CounterWritten(out) == IF out.counter # counter THEN out.counter ELSE <<>>

Pending(op, item_id, out) ==
    << [op |-> op, item_id |-> item_id, ret_u64 |-> out.ret_u64,
        items |-> ItemsWritten(out), counter |-> CounterWritten(out)] >>

\* list_item invocations that have returned or are under way
ListsStarted ==
    Len(returned)
    + Cardinality({p \in Proc : inflight[p] # Idle /\ inflight[p][1].op = "list_item"})

\* an invocation does its reads and checks and has its writes still to come
\* (one that panics at a check writes nothing and is not followed here)
Begin(p, op, item_id, out) ==
    /\ ~atomic
    /\ inflight[p] = Idle
    /\ \A q \in Proc : q < p => inflight[q] # Idle
    /\ out.result = "Ok"
    /\ inflight' = [inflight EXCEPT ![p] = Pending(op, item_id, out)]
    /\ UNCHANGED <<items, counter, now, overflow_checks, lastCall, returned,
                   transitions, atomic>>

\* durations tried by overlapping listings
Duration == {0, 1}

BeginList ==
    \E p \in Proc, seller \in Address, price \in Price \ {2},
       description \in Description, duration_seconds \in Duration :
        /\ ItemCounter < MaxItems
        /\ ListsStarted <= MaxItems
        /\ Begin(p, "list_item", 0,
                 list_item(seller, price, description, duration_seconds, TRUE))

BeginBuy ==
    \E p \in Proc, item_id \in ItemId, buyer \in Address :
        Begin(p, "buy_item", item_id, buy_item(item_id, buyer, TRUE))

BeginUnlist ==
    \E p \in Proc, item_id \in ItemId, seller \in Address :
        Begin(p, "unlist_item", item_id, unlist_item(item_id, seller, TRUE))

\* the invocation's set(..) calls reach storage and it returns
Commit ==
    \E p \in Proc :
        /\ ~atomic
        /\ inflight[p] # Idle
        /\ LET w == inflight[p][1]
           IN  /\ items' = w.items @@ items
               /\ counter' = IF w.counter # <<>> THEN w.counter ELSE counter
               /\ returned' = IF w.op = "list_item"
                              THEN Append(returned, w.ret_u64) ELSE returned
               /\ transitions' =
                     IF w.op \in {"buy_item", "unlist_item"}
                     THEN (w.item_id :> Transitions(w.item_id) + 1) @@ transitions
                     ELSE transitions
               /\ lastCall' = [op |-> w.op, result |-> "Ok"]
        /\ inflight' = [inflight EXCEPT ![p] = Idle]
        /\ UNCHANGED <<now, overflow_checks, atomic>>

Serialized == atomic /\ (ListItem \/ BuyItem \/ UnlistItem \/ ViewItem)

InitInterleaved == InitStorage /\ atomic \in BOOLEAN

NextInterleaved ==
    Serialized \/ BeginList \/ BeginBuy \/ BeginUnlist \/ Commit \/ Tick

SpecInterleaved == InitInterleaved /\ [][NextInterleaved]_vars

\* ---- helpers of the properties ------------------------------------------
Stored == DOMAIN items
Listed(id) == id \in Stored /\ items[id].status = "Listed"
Expired(id) == id \in Stored /\ now > items[id].expiry_time
\* the listing's expiry_time was computed without wrapping around
Unwrapped(id) == id \in Stored /\ items[id].list_time <= items[id].expiry_time

\* ---- C1 -----------------------------------------------------------------
\* C1: over any sequence of calls, successful or failed, the k-th successful
\* list_item returns exactly k: the returned ids start at 1, increase by one,
\* have no gaps and are never reused, and failed calls consume no id.
C1_IdsSequential ==
    /\ \A k \in 1 .. Len(returned) : returned[k] = k
    /\ Len(returned) = ItemCounter

\* two listings succeeded and a failed call came afterwards
C1_Witness ==
    /\ Len(returned) >= 2
    /\ lastCall.result \notin {"Ok", "none"}

\* ---- C2 -----------------------------------------------------------------
\* C2: in every step, every stored item stays stored and its status either
\* stays the same or goes from Listed to Sold or from Listed to Unlisted;
\* Sold and Unlisted are never left and Listed is never re-entered.
C2_StatusStep ==
    \A id \in Stored :
        /\ id \in DOMAIN items'
        /\ \/ items'[id].status = items[id].status
           \/ /\ items[id].status = "Listed"
              /\ items'[id].status \in {"Sold", "Unlisted"}

C2_StatusMonotone == [][C2_StatusStep]_vars

\* an unlist_item was refused on an item that is already Sold
C2_Witness ==
    /\ lastCall = [op |-> "unlist_item", result |-> "NotAvailable"]
    /\ \E id \in Stored : items[id].status = "Sold"

\* ---- C3 -----------------------------------------------------------------
\* C3: an authorized buy_item on a Listed item whose expiry_time has passed
\* fails with Expired and leaves the item persisted as Unlisted, so a
\* view_item made afterwards reports status Unlisted.  (Stated for the
\* listings whose expiry_time did not wrap around.)
C3_ExpiredStep ==
    \A item_id \in ItemId, buyer \in Address :
        (/\ BuyItemCall(item_id, buyer, TRUE)
         /\ Listed(item_id) /\ Unwrapped(item_id) /\ Expired(item_id))
            => /\ lastCall'.result = "Expired"
               /\ (view_item(item_id).result)' = "Ok"
               /\ (view_item(item_id).ret_item[1].status)' = "Unlisted"

C3_ExpiredBuyUnlists == [][C3_ExpiredStep]_vars

\* ---- C4 -----------------------------------------------------------------
\* C4: an item becomes Sold only in a buy_item call made at a timestamp not
\* after its expiry_time; the timestamp never decreases and expiry_time never
\* changes, so a Listed item whose expiry_time has passed is never Sold.
C4_SaleStep ==
    /\ now' >= now
    /\ \A id \in Stored :
        /\ items'[id].expiry_time = items[id].expiry_time
        /\ (items[id].status # "Sold" /\ items'[id].status = "Sold")
              => /\ now <= items[id].expiry_time
                 /\ lastCall' = [op |-> "buy_item", result |-> "Ok"]
        /\ (Listed(id) /\ Expired(id)) => items'[id].status # "Sold"

C4_SoldBeforeExpiry == [][C4_SaleStep]_vars

\* a sale has just happened while another listing has already expired
C4_Witness ==
    /\ lastCall = [op |-> "buy_item", result |-> "Ok"]
    /\ \E id \in Stored : items[id].status = "Sold" /\ now <= items[id].expiry_time
    /\ \E id \in Stored : Listed(id) /\ Expired(id)

\* ---- C5 -----------------------------------------------------------------
\* C5: every stored item has buyer None while it is Listed or Unlisted, and
\* when it is Sold its buyer is one identity different from its seller.
C5_BuyerConsistent ==
    \A id \in Stored :
        /\ items[id].status \in {"Listed", "Unlisted"} => items[id].buyer = None
        /\ items[id].status = "Sold"
              => \E a \in Address : items[id].buyer = Some(a) /\ a # items[id].seller

\* one item is Sold and another is Unlisted
C5_Witness ==
    /\ \E id \in Stored : items[id].status = "Sold"
    /\ \E id \in Stored : items[id].status = "Unlisted"

\* ---- C6 -----------------------------------------------------------------
\* C6: an authorized buy_item on a stored item that is Sold or Unlisted fails
\* with NotAvailable for every buyer and every timestamp, and leaves the
\* storage as it was.
C6_BuyUnavailable ==
    \A item_id \in Stored, buyer \in Address :
        items[item_id].status \in {"Sold", "Unlisted"}
            => LET out == Host(buy_item(item_id, buyer, TRUE))
               IN  /\ out.result = "NotAvailable"
                   /\ out.items = items
                   /\ out.counter = counter

\* a buy_item was refused with NotAvailable on an item that was sold to its
\* only possible other buyer and whose expiry_time has passed
C6_Witness ==
    /\ lastCall = [op |-> "buy_item", result |-> "NotAvailable"]
    /\ \E id \in Stored : items[id].status = "Sold" /\ Expired(id)

\* ---- C7 -----------------------------------------------------------------
\* C7 as stated: an authorized buy_item on a Listed item by its own seller
\* always fails with SelfTrade and never makes the item Sold.  (Stated for
\* the listings whose expiry_time did not wrap around.)
C7_SelfTradeAlways ==
    \A item_id \in Stored :
        (Listed(item_id) /\ Unwrapped(item_id))
            => LET out == Host(buy_item(item_id, items[item_id].seller, TRUE))
               IN  /\ out.result = "SelfTrade"
                   /\ out.items[item_id].status # "Sold"

\* C7 amended: an authorized buy_item on a Listed item by its own seller
\* fails with SelfTrade while the listing has not expired and with Expired
\* once it has; in neither case does the item become Sold.
C7_SelfTradeUnexpired ==
    \A item_id \in Stored :
        Listed(item_id)
            => LET out == Host(buy_item(item_id, items[item_id].seller, TRUE))
               IN  /\ out.result = IF Expired(item_id) THEN "Expired" ELSE "SelfTrade"
                   /\ out.items[item_id].status # "Sold"

\* a buy_item has just failed with SelfTrade and its listing is still open
C7_Witness ==
    /\ lastCall = [op |-> "buy_item", result |-> "SelfTrade"]
    /\ \E id \in Stored : Listed(id) /\ ~Expired(id)

\* ---- C8 -----------------------------------------------------------------
\* C8: an authorized unlist_item on a stored item by an identity that is not
\* its seller fails with NotOwner whatever the item's status, and the item
\* is unchanged.
C8_UnlistNotOwner ==
    \A item_id \in Stored, seller \in Address :
        seller # items[item_id].seller
            => LET out == Host(unlist_item(item_id, seller, TRUE))
               IN  /\ out.result = "NotOwner"
                   /\ out.items[item_id] = items[item_id]

\* an unlist_item has just failed with NotOwner and every stored item is
\* no longer Listed
C8_Witness ==
    /\ lastCall = [op |-> "unlist_item", result |-> "NotOwner"]
    /\ Stored # {}
    /\ \A id \in Stored : items[id].status # "Listed"

\* ---- C9 -----------------------------------------------------------------
\* C9 as stated: list_item with price <= 0 always fails with InvalidPrice,
\* creates no item and leaves the counter unchanged.
C9_InvalidPriceAlways ==
    \A seller \in Address, price \in Price, description \in Description,
       duration_seconds \in U64, auth \in BOOLEAN :
        price <= 0
            => LET out == Host(list_item(seller, price, description,
                                         duration_seconds, auth))
               IN  /\ out.result = "InvalidPrice"
                   /\ out.items = items
                   /\ out.counter = counter

\* C9 amended: an authorized list_item with price <= 0 fails with
\* InvalidPrice, creates no item and leaves the counter unchanged, so the
\* next successful list_item returns the id it would have returned anyway.
C9_InvalidPriceAuthorized ==
    \A seller \in Address, price \in Price, description \in Description,
       duration_seconds \in U64 :
        price <= 0
            => LET out == Host(list_item(seller, price, description,
                                         duration_seconds, TRUE))
               IN  /\ out.result = "InvalidPrice"
                   /\ out.items = items
                   /\ out.counter = counter

\* a list_item has just failed with InvalidPrice after one listing succeeded
C9_Witness ==
    /\ lastCall = [op |-> "list_item", result |-> "InvalidPrice"]
    /\ Len(returned) = 1
    /\ ItemCounter = 1

\* ---- C10 ----------------------------------------------------------------
\* C10: right after a successful list_item(seller, price, description,
\* duration_seconds) made at timestamp t and returning id, view_item(id)
\* returns {id, seller, price, description, Listed, None, t,
\* t + duration_seconds}.
C10_ListStep ==
    \A seller \in Address, price \in Price, description \in Description,
       duration_seconds \in U64, id \in ItemId :
        (/\ ListItemCall(seller, price, description, duration_seconds, TRUE)
         /\ lastCall'.result = "Ok"
         /\ id = returned'[Len(returned')])
            => /\ (view_item(id).result)' = "Ok"
               /\ (view_item(id).ret_item)' =
                     << [id |-> id, seller |-> seller, price |-> price,
                         description |-> description, status |-> "Listed",
                         buyer |-> None, list_time |-> now,
                         expiry_time |-> now + duration_seconds] >>

C10_ListViewRoundTrip == [][C10_ListStep]_vars

\* ---- C11 ----------------------------------------------------------------
\* C11: an invocation that fails with Unauthorized, InvalidPrice, NotFound,
\* NotAvailable, SelfTrade or NotOwner leaves all items and the counter
\* unchanged, and the Expired failure of buy_item is the one failure that
\* comes with a persisted change: the item is stored as Unlisted.  (The
\* Expired part is stated for the listings whose expiry_time did not wrap
\* around.)
C11_FailStep ==
    /\ (now' = now /\ lastCall'.result \in {"Unauthorized", "InvalidPrice",
                                            "NotFound", "NotAvailable",
                                            "SelfTrade", "NotOwner"})
          => (items' = items /\ counter' = counter)
    /\ \A item_id \in ItemId, buyer \in Address :
          (/\ BuyItemCall(item_id, buyer, TRUE)
           /\ Listed(item_id) /\ Unwrapped(item_id) /\ Expired(item_id))
              => /\ lastCall'.result = "Expired"
                 /\ items' = [items EXCEPT ![item_id].status = "Unlisted"]

C11_FailuresKeepState == [][C11_FailStep]_vars

\* ---- C12 ----------------------------------------------------------------
\* C12: once a buy_item on an item has failed with Expired, an authorized
\* buy_item on the same item id made afterwards, by any buyer, fails with
\* NotAvailable.  (Stated for the retry that directly follows the failure,
\* on the listings whose expiry_time did not wrap around.)
C12_RetryStep ==
    \A item_id \in ItemId, buyer \in Address, again \in Address :
        (/\ BuyItemCall(item_id, buyer, TRUE)
         /\ Unwrapped(item_id)
         /\ lastCall'.result = "Expired")
            => (Host(buy_item(item_id, again, TRUE)).result)' = "NotAvailable"

C12_RetryNotAvailable == [][C12_RetryStep]_vars

\* ---- C13 ----------------------------------------------------------------
\* C13: an item is never deleted: every id that list_item has returned is
\* stored, and in every step every stored id stays stored, so view_item on
\* it succeeds in every later state, whatever the item's status.
C13_KeepStep ==
    /\ \A k \in 1 .. Len(returned') : (view_item(returned[k]).result)' = "Ok"
    /\ \A id \in Stored : (view_item(id).result)' = "Ok"

C13_NeverDeleted == [][C13_KeepStep]_vars

\* both items are stored, one Sold and one unlisted, and both listings have
\* expired
C13_Witness ==
    /\ Len(returned) = 2
    /\ \E id \in Stored : items[id].status = "Sold" /\ Expired(id)
    /\ \E id \in Stored : items[id].status = "Unlisted" /\ Expired(id)
    /\ lastCall = [op |-> "view_item", result |-> "Ok"]

\* ---- C14 ----------------------------------------------------------------
\* C14: in every step every stored item keeps its id, seller, price,
\* description, list_time and expiry_time, and the buyer of an item that is
\* Sold never changes.
C14_FieldStep ==
    \A id \in Stored :
        /\ id \in DOMAIN items'
        /\ items'[id].id = items[id].id
        /\ items'[id].seller = items[id].seller
        /\ items'[id].price = items[id].price
        /\ items'[id].description = items[id].description
        /\ items'[id].list_time = items[id].list_time
        /\ items'[id].expiry_time = items[id].expiry_time
        /\ items[id].status = "Sold" => items'[id].buyer = items[id].buyer
        /\ items'[id].buyer # items[id].buyer => items[id].buyer = None

C14_FieldsImmutable == [][C14_FieldStep]_vars

\* an item has just been sold and the other one was unlisted
C14_Witness ==
    /\ lastCall = [op |-> "buy_item", result |-> "Ok"]
    /\ \E id \in Stored : items[id].status = "Sold" /\ items[id].price = 2
    /\ \E id \in Stored : items[id].status = "Unlisted" /\ items[id].price = 1

\* ---- C15 ----------------------------------------------------------------
\* C15: every stored item has expiry_time >= list_time, for every timestamp
\* and every duration_seconds, also when their sum does not fit in u64.
C15_ExpiryNotBeforeListing ==
    \A id \in Stored : items[id].expiry_time >= items[id].list_time

\* ---- C16 ----------------------------------------------------------------
\* C16: an authorized unlist_item by the seller of an item that is Listed
\* succeeds and stores the item as Unlisted at every timestamp, also after
\* its expiry_time.
C16_UnlistIgnoresExpiry ==
    \A item_id \in Stored :
        Listed(item_id)
            => LET out == Host(unlist_item(item_id, items[item_id].seller, TRUE))
               IN  /\ out.result = "Ok"
                   /\ out.ret_bool = TRUE
                   /\ out.items = [items EXCEPT ![item_id].status = "Unlisted"]

\* the last call is a successful unlist_item, and it unlisted item 1 after
\* item 2 had been listed at a timestamp past the expiry_time of item 1
C16_Witness ==
    /\ lastCall = [op |-> "unlist_item", result |-> "Ok"]
    /\ Stored = {1, 2}
    /\ items[1].status = "Unlisted" /\ Unwrapped(1)
    /\ items[2].status = "Listed"
    /\ items[2].list_time > items[1].expiry_time

\* ---- C17 ----------------------------------------------------------------
\* C17: the keys that hold an item are exactly 1 .. counter (none while the
\* counter is absent), the item under key i has id i, and view_item fails
\* with NotFound exactly for the ids outside 1 .. counter.
C17_KeysAreIds ==
    /\ Stored = 1 .. ItemCounter
    /\ \A i \in Stored : items[i].id = i
    /\ \A id \in ItemId :
          (view_item(id).result = "NotFound") <=> (id \notin 1 .. ItemCounter)

\* two items are stored and a view_item has just failed with NotFound
C17_Witness ==
    /\ ItemCounter = 2
    /\ lastCall = [op |-> "view_item", result |-> "NotFound"]

\* ---- C19 ----------------------------------------------------------------
\* C19: an authorized buy_item on a Listed item by a buyer other than its
\* seller succeeds, storing the item as Sold with that buyer, while
\* current_time <= expiry_time, equality included, and fails with Expired
\* when current_time > expiry_time.
C19_ExpiryInclusive ==
    \A item_id \in Stored, buyer \in Address :
        (Listed(item_id) /\ buyer # items[item_id].seller)
            => LET out == Host(buy_item(item_id, buyer, TRUE))
               IN  IF now > items[item_id].expiry_time
                   THEN out.result = "Expired"
                   ELSE /\ out.result = "Ok"
                        /\ out.ret_bool = TRUE
                        /\ out.items = [items EXCEPT ![item_id].status = "Sold",
                                                     ![item_id].buyer = Some(buyer)]

\* an item listed with duration_seconds = 0 was bought at its listing
\* timestamp: the sale is the last call and the timestamp has not moved
C19_Witness ==
    /\ lastCall = [op |-> "buy_item", result |-> "Ok"]
    /\ Stored = {1}
    /\ items[1].status = "Sold"
    /\ items[1].list_time = now
    /\ items[1].expiry_time = now

\* ---- C20 ----------------------------------------------------------------
\* C20: buy_item and unlist_item on an id, whether they succeed or fail,
\* leave the counter and every item under another id unchanged and store no
\* new key; list_item leaves every stored item unchanged and changes only
\* the counter and the key of the new item.
C20_Frame ==
    /\ \A item_id \in ItemId, who \in Address, auth \in BOOLEAN :
          \A out \in {Host(buy_item(item_id, who, auth)),
                      Host(unlist_item(item_id, who, auth))} :
              /\ out.counter = counter
              /\ DOMAIN out.items = Stored
              /\ \A j \in Stored \ {item_id} : out.items[j] = items[j]
    /\ \A seller \in Address, price \in Price, description \in Description,
          duration_seconds \in U64, auth \in BOOLEAN :
          LET out == Host(list_item(seller, price, description,
                                    duration_seconds, auth))
          IN  /\ DOMAIN out.items \subseteq Stored \cup {ItemCounter + 1}
              /\ \A j \in Stored :
                    j \in DOMAIN out.items /\ out.items[j] = items[j]

\* two items are stored; the second has just been bought and the first is
\* still Listed
C20_Witness ==
    /\ lastCall = [op |-> "buy_item", result |-> "Ok"]
    /\ Stored = {1, 2}
    /\ items[1].status = "Listed"
    /\ items[2].status = "Sold"

\* ---- C18 ----------------------------------------------------------------
\* C18: when invocations overlap, two list_item calls that both read the
\* counter before either writes it return the same id, and a buy_item that
\* overlaps an unlist_item or another buy_item on a Listed item loses an
\* update: both return true.  When the host serializes the invocations no
\* id is returned twice and at most one buy_item or unlist_item returns
\* true on an item.
DuplicateId ==
    \E i, j \in 1 .. Len(returned) : i < j /\ returned[i] = returned[j]

LostUpdate == \E id \in DOMAIN transitions : transitions[id] > 1

C18_SerializedSafe == atomic => (~DuplicateId /\ ~LostUpdate)

\* overlapping invocations have returned id 1 twice; id 2 was returned
\* once, so item 2 was stored as Listed once, and two calls have returned
\* true on it
C18_Witness ==
    /\ ~atomic
    /\ \A p \in Proc : inflight[p] = Idle
    /\ Cardinality({k \in 1 .. Len(returned) : returned[k] = 1}) = 2
    /\ Cardinality({k \in 1 .. Len(returned) : returned[k] = 2}) = 1
    /\ Transitions(2) = 2

====
